---------------------------- MODULE Spec2Model ----------------------------
(***************************************************************************)
(* Model of pdf_renamer/app.py: the three field extractors, sanitize_name  *)
(* and the three upload handlers that rename a batch of PDF documents and  *)
(* write them to a zip archive.                                            *)
(*                                                                         *)
(* A Python str is a sequence of one-character strings.  The text that     *)
(* PyMuPDF recovers from a document is part of the input: a document is a  *)
(* record saying whether fitz.open accepts the bytes and, for each page,   *)
(* whether get_text succeeds and what it returns.                          *)
(***************************************************************************)
EXTENDS Naturals, Sequences, FiniteSets

VARIABLES
    handler,    \* the route serving the request: "upload", "upload_invoice", "upload_salesorder"
    files,      \* the request's files: sequence of [filename, data]
    zf,         \* the entries written to the zip archive so far, in order
    pos,        \* index of the file the handler's loop reads next
    pc,         \* control position of the behaviour
    doc,        \* the document handed to an extractor (extractor behaviours)
    extractor,  \* which extractor is applied to doc
    result,     \* what the extractor returned
    name,       \* the string handed to sanitize_name (sanitizer behaviours)
    once,       \* sanitize_name(name)
    twice       \* sanitize_name(sanitize_name(name))

vars == <<handler, files, zf, pos, pc, doc, extractor, result, name, once, twice>>

-----------------------------------------------------------------------------
(* Bounds of the model *)

\* longest request: number of files in one upload
MaxBatch == 2
\* longest document text, in lines, handed to an extractor
MaxLines == 3
\* longest string handed to sanitize_name on its own
MaxLen == 3

-----------------------------------------------------------------------------
(* Python values *)

\* Python's None; no str is equal to it (a str holds one-character strings)
None == <<"None">>
\* not-yet-assigned marker of the model's own bookkeeping variables
Unset == <<"Unset">>
\* an exception leaving a function instead of a value
Raised == <<"Raised">>

\* truth value of an Optional[str] in `if x:`
Truthy(x) == x # None /\ x # <<>>

UpperLetters == <<"A","B","C","D","E","F","G","H","I","J","K","L","M",
                  "N","O","P","Q","R","S","T","U","V","W","X","Y","Z">>
LowerLetters == <<"a","b","c","d","e","f","g","h","i","j","k","l","m",
                  "n","o","p","q","r","s","t","u","v","w","x","y","z">>
Letters == {UpperLetters[i] : i \in DOMAIN UpperLetters}
             \cup {LowerLetters[i] : i \in DOMAIN LowerLetters}
Digits == {"0","1","2","3","4","5","6","7","8","9"}
\* str.isalnum on one character
Alnum == Letters \cup Digits
\* \s of the re module, and the characters str.strip removes
Space == {" ", "\t", "\n", "\r"}
\* \w of the re module
WordChars == Alnum \cup {"_"}
\* the class [A-Za-z0-9\-]
TokenChars == Alnum \cup {"-"}

\* re.IGNORECASE comparison: the character folded to lower case
Lower(c) ==
    IF \E i \in DOMAIN UpperLetters : UpperLetters[i] = c
    THEN LowerLetters[CHOOSE i \in DOMAIN UpperLetters : UpperLetters[i] = c]
    ELSE c

\* s[a:b] of Python with 1-based inclusive positions a..b
Slice(s, a, b) == [k \in 1..(IF b >= a THEN b - a + 1 ELSE 0) |-> s[a + k - 1]]

\* the literal lit (given in lower case) stands at position p of s, ignoring case
LitAt(s, p, lit) ==
    /\ p + Len(lit) - 1 <= Len(s)
    /\ \A k \in 1..Len(lit) : Lower(s[p + k - 1]) = lit[k]

\* position just after the longest run of characters of class C starting at p
\* (a greedy C* and, when the run is non-empty, C+)
SkipClass(s, p, C) ==
    CHOOSE q \in p..(Len(s) + 1) :
        /\ \A k \in p..(q - 1) : s[k] \in C
        /\ (q = Len(s) + 1 \/ s[q] \notin C)

\* str.strip()
Strip(s) ==
    IF \A k \in 1..Len(s) : s[k] \in Space THEN <<>>
    ELSE LET a == CHOOSE i \in 1..Len(s) :
                      s[i] \notin Space /\ \A k \in 1..(i - 1) : s[k] \in Space
             b == CHOOSE i \in 1..Len(s) :
                      s[i] \notin Space /\ \A k \in (i + 1)..Len(s) : s[k] \in Space
         IN  Slice(s, a, b)

\* \b of the re module at the gap before position p
WordBoundary(s, p) ==
    LET before == p > 1 /\ s[p - 1] \in WordChars
        after  == p <= Len(s) /\ s[p] \in WordChars
    IN  before # after

\* smallest element of a non-empty set of positions
Min(S) == CHOOSE x \in S : \A y \in S : x <= y

-----------------------------------------------------------------------------
(* Regular expressions of app.py.  Each XxxAt(s, p) is the match that      *)
(* starts at position p, NoMatch when there is none; a search returns the  *)
(* leftmost one.  A match is [found, start, end, group] with end the       *)
(* position just after it.                                                 *)

\* the None a failed re.search or re.match returns
NoMatch == [found |-> FALSE]

\* r"<Label>\s*(?:No\s*[:#]?\s*|Number\s*[:\s]*)\s*([A-Za-z0-9\-]+)", re.IGNORECASE
NoOrNumberAt(label, s, p) ==
    IF ~LitAt(s, p, label) THEN NoMatch
    ELSE LET a == SkipClass(s, p + Len(label), Space)
             \* first alternative: No\s*[:#]?\s*
             b1 == SkipClass(s, a + 2, Space)
             c1 == IF b1 <= Len(s) /\ s[b1] \in {":", "#"} THEN b1 + 1 ELSE b1
             d1 == SkipClass(s, c1, Space)
             e1 == SkipClass(s, d1, TokenChars)
             \* second alternative: Number\s*[:\s]*
             d2 == SkipClass(s, a + 6, Space \cup {":"})
             e2 == SkipClass(s, d2, TokenChars)
         IN  IF LitAt(s, a, <<"n","o">>) /\ e1 > d1
                 THEN [found |-> TRUE, start |-> p, end |-> e1, group |-> Slice(s, d1, e1 - 1)]
             ELSE IF LitAt(s, a, <<"n","u","m","b","e","r">>) /\ e2 > d2
                 THEN [found |-> TRUE, start |-> p, end |-> e2, group |-> Slice(s, d2, e2 - 1)]
             ELSE NoMatch

NoOrNumberSearch(label, s) ==
    LET hits == {p \in 1..Len(s) : (NoOrNumberAt(label, s, p)).found}
    IN  IF hits = {} THEN NoMatch ELSE NoOrNumberAt(label, s, Min(hits))

CUST_REGEX_search(s) == NoOrNumberSearch(<<"c","u","s","t","o","m","e","r">>, s)
INV_REGEX_search(s) == NoOrNumberSearch(<<"i","n","v","o","i","c","e">>, s)

\* r"<w1>\s*<w2>\s*[:\s]*([A-Za-z0-9\-]+)", re.IGNORECASE
TwoWordLabelAt(w1, w2, s, p) ==
    IF ~LitAt(s, p, w1) THEN NoMatch
    ELSE LET a == SkipClass(s, p + Len(w1), Space)
             b == SkipClass(s, a + Len(w2), Space \cup {":"})
             e == SkipClass(s, b, TokenChars)
         IN  IF LitAt(s, a, w2) /\ e > b
                 THEN [found |-> TRUE, start |-> p, end |-> e, group |-> Slice(s, b, e - 1)]
             ELSE NoMatch

TwoWordLabelSearch(w1, w2, s) ==
    LET hits == {p \in 1..Len(s) : (TwoWordLabelAt(w1, w2, s, p)).found}
    IN  IF hits = {} THEN NoMatch ELSE TwoWordLabelAt(w1, w2, s, Min(hits))

OrderNumberSearch(line) == TwoWordLabelSearch(<<"o","r","d","e","r">>, <<"n","u","m","b","e","r">>, line)
SalesOrderSearch(line) == TwoWordLabelSearch(<<"s","a","l","e","s">>, <<"o","r","d","e","r">>, line)

\* r"\b(?:SO|SV)[A-Za-z0-9]+\b", re.IGNORECASE; group is the whole match
BareOrderAt(s, p) ==
    IF ~(WordBoundary(s, p) /\ (LitAt(s, p, <<"s","o">>) \/ LitAt(s, p, <<"s","v">>)))
    THEN NoMatch
    ELSE LET e == SkipClass(s, p + 2, Alnum)
         IN  IF e > p + 2 /\ WordBoundary(s, e)
                 THEN [found |-> TRUE, start |-> p, end |-> e, group |-> Slice(s, p, e - 1)]
             ELSE NoMatch

ORDER_FALLBACK_REGEX_search(s) ==
    LET hits == {p \in 1..Len(s) : (BareOrderAt(s, p)).found}
    IN  IF hits = {} THEN NoMatch ELSE BareOrderAt(s, Min(hits))

\* re.match(r"\s*Ship\s*To\b[\s:]*", line, re.IGNORECASE): anchored at the start
ShipToMatch(line) ==
    LET a == SkipClass(line, 1, Space)
        b == SkipClass(line, a + 4, Space)
        e == SkipClass(line, b + 2, Space \cup {":"})
    IN  IF LitAt(line, a, <<"s","h","i","p">>) /\ LitAt(line, b, <<"t","o">>) /\ WordBoundary(line, b + 2)
            THEN [found |-> TRUE, start |-> 1, end |-> e, group |-> Slice(line, 1, e - 1)]
        ELSE NoMatch

\* re.sub(r"\s*\d.*", "", candidate): the candidate holds no line break, so
\* the leftmost match runs to its end and is the only one
RemoveFromDigit(candidate) ==
    LET hits == {p \in 1..Len(candidate) :
                    LET d == SkipClass(candidate, p, Space)
                    IN  d <= Len(candidate) /\ candidate[d] \in Digits}
    IN  IF hits = {} THEN candidate ELSE Slice(candidate, 1, Min(hits) - 1)

-----------------------------------------------------------------------------
(* Documents: data is [openable, pages], a page is [readable, text] *)

\* str.splitlines(): no empty last line after a final line break
RECURSIVE SplitLines(_)
SplitLines(text) ==
    IF text = <<>> THEN <<>>
    ELSE LET brk == {i \in 1..Len(text) : text[i] \in {"\n", "\r"}}
         IN  IF brk = {} THEN <<text>>
             ELSE LET i == Min(brk)
                      j == IF text[i] = "\r" /\ i < Len(text) /\ text[i + 1] = "\n"
                           THEN i + 1 ELSE i
                  IN  <<Slice(text, 1, i - 1)>> \o SplitLines(Slice(text, j + 1, Len(text)))

\* "\n".join(lines)
RECURSIVE JoinLines(_)
JoinLines(lines) ==
    IF lines = <<>> THEN <<>>
    ELSE IF Len(lines) = 1 THEN lines[1]
    ELSE lines[1] \o <<"\n">> \o JoinLines(Tail(lines))

\* the loop `for page in doc: full_text += page.get_text()`; a page whose
\* get_text raises is skipped by `continue`
RECURSIVE FullText(_)
FullText(pages) ==
    IF pages = <<>> THEN <<>>
    ELSE (IF pages[1].readable THEN pages[1].text ELSE <<>>) \o FullText(Tail(pages))

\* the loop `for page in doc: ... lines.extend(text.splitlines())`
RECURSIVE PageLines(_)
PageLines(pages) ==
    IF pages = <<>> THEN <<>>
    ELSE (IF pages[1].readable /\ pages[1].text # <<>>
          THEN SplitLines(pages[1].text) ELSE <<>>) \o PageLines(Tail(pages))

-----------------------------------------------------------------------------
(* The extractors *)

\* the extractor without its try/except around fitz.open
extract_customer_number_Uncaught(data) ==
    IF ~data.openable THEN Raised
    ELSE LET match == CUST_REGEX_search(FullText(data.pages))
         IN  IF match.found THEN Strip(match.group) ELSE None

extract_customer_number_from_pdf_bytes(data) ==
    IF ~data.openable THEN None     \* fitz.open raised: except Exception, return None
    ELSE LET match == CUST_REGEX_search(FullText(data.pages))
         IN  IF match.found THEN Strip(match.group) ELSE None

extract_invoice_number_from_pdf_bytes(data) ==
    IF ~data.openable THEN None
    ELSE LET match == INV_REGEX_search(FullText(data.pages))
         IN  IF match.found THEN Strip(match.group) ELSE None

\* lines 82-90: the order number one line yields, None when it yields none
OrderOfLine(line) ==
    LET m1 == OrderNumberSearch(line)
        m2 == SalesOrderSearch(line)
        m3 == ORDER_FALLBACK_REGEX_search(line)
    IN  IF m1.found THEN Strip(m1.group)
        ELSE IF m2.found THEN Strip(m2.group)
        ELSE IF m3.found THEN Strip(m3.group)
        ELSE None

\* lines 98-102: the next non-empty line after idx, stripped; "" when there is none
NextNonEmpty(lines, idx) ==
    LET js == {j \in (idx + 1)..Len(lines) : Strip(lines[j]) # <<>>}
    IN  IF js = {} THEN <<>> ELSE Strip(lines[Min(js)])

\* lines 92-106: the ship-to name line idx yields, None when it yields none
ShipOfLine(lines, idx) ==
    LET line == lines[idx]
        ship_match == ShipToMatch(line)
        after == Strip(Slice(line, ship_match.end, Len(line)))
        candidate == IF after # <<>> THEN after ELSE NextNonEmpty(lines, idx)
    IN  IF ship_match.found /\ candidate # <<>>
            THEN Strip(RemoveFromDigit(candidate))
        ELSE None

\* the loop with `if ship_name is None` and the `break` left out: every
\* "Ship To" line overwrites the name
RECURSIVE ScanLines_LastShipWins(_, _, _, _)
ScanLines_LastShipWins(lines, idx, order_num, ship_name) ==
    IF idx > Len(lines) THEN <<order_num, ship_name>>
    ELSE ScanLines_LastShipWins(lines, idx + 1,
             IF order_num = None THEN OrderOfLine(lines[idx]) ELSE order_num,
             IF ShipOfLine(lines, idx) # None THEN ShipOfLine(lines, idx) ELSE ship_name)

\* lines 80-108: the loop over the lines from line idx on
RECURSIVE ScanLines(_, _, _, _)
ScanLines(lines, idx, order_num, ship_name) ==
    IF idx > Len(lines) THEN <<order_num, ship_name>>
    ELSE LET order2 == IF order_num = None THEN OrderOfLine(lines[idx]) ELSE order_num
             ship2 == IF ship_name = None THEN ShipOfLine(lines, idx) ELSE ship_name
         IN  IF order2 # None /\ ship2 # None THEN <<order2, ship2>>      \* break
             ELSE ScanLines(lines, idx + 1, order2, ship2)

\* returns the pair <<order_num, ship_name>>
extract_sales_order_details_from_pdf_bytes(data) ==
    IF ~data.openable THEN <<None, None>>
    ELSE LET lines == PageLines(data.pages)
             scanned == ScanLines(lines, 1, None, None)
             m == ORDER_FALLBACK_REGEX_search(JoinLines(lines))
         IN  IF scanned[1] = None /\ m.found
                 THEN <<Strip(m.group), scanned[2]>>
             ELSE scanned

\* c.isalnum() or c in ('-', '_')
KeepChar(c) == c \in Alnum \/ c \in {"-", "_"}

\* a sanitizer that also keeps the space and the period
KeepCharOrSpaceOrDot(c) == KeepChar(c) \/ c \in {" ", "."}
sanitize_name_KeepsSpaceAndDot(s) == SelectSeq(s, KeepCharOrSpaceOrDot)

\* a sanitizer that returns its argument
sanitize_name_Identity(s) == s

\* a sanitizer that removes the first character it does not keep and stops
sanitize_name_FirstOnly(s) ==
    LET bad == {i \in 1..Len(s) : ~KeepChar(s[i])}
    IN  IF bad = {} THEN s
        ELSE Slice(s, 1, Min(bad) - 1) \o Slice(s, Min(bad) + 1, Len(s))

sanitize_name(s) == SelectSeq(s, KeepChar)

-----------------------------------------------------------------------------
(* pathlib *)

RECURSIVE SplitOn(_, _)
SplitOn(s, sep) ==
    LET at == {i \in 1..Len(s) : s[i] = sep}
    IN  IF at = {} THEN <<s>>
        ELSE <<Slice(s, 1, Min(at) - 1)>> \o SplitOn(Slice(s, Min(at) + 1, Len(s)), sep)

IsPathPart(part) == part # <<>> /\ part # <<".">>

\* Path(p).name: the last component; empty and "." components are dropped
PathName(p) ==
    LET parts == SelectSeq(SplitOn(p, "/"), IsPathPart)
    IN  IF parts = <<>> THEN <<>> ELSE parts[Len(parts)]

\* Path(p).stem: the name without its last suffix; a leading or a final dot
\* starts no suffix
PathStem(p) ==
    LET nm == PathName(p)
        dots == {i \in 1..Len(nm) : nm[i] = "."}
        i == CHOOSE d \in dots : \A e \in dots : e <= d
    IN  IF dots # {} /\ 1 < i /\ i < Len(nm) THEN Slice(nm, 1, i - 1) ELSE nm

\* uploaded.filename or "file"
FilenameOrFile(filename) == IF Truthy(filename) THEN filename ELSE <<"f","i","l","e">>

\* lines 146-147: sanitize_name(Path(uploaded.filename or "file").stem) + ".pdf"
FallbackName(filename) == sanitize_name(PathStem(FilenameOrFile(filename))) \o <<".","p","d","f">>

-----------------------------------------------------------------------------
(* zipfile *)

\* an archive that keeps one entry per name: a second write replaces the first
ZipWritestr_Replace(archive, nm, data) ==
    IF \E i \in 1..Len(archive) : archive[i].name = nm
    THEN [i \in 1..Len(archive) |->
             IF archive[i].name = nm THEN [name |-> nm, data |-> data] ELSE archive[i]]
    ELSE Append(archive, [name |-> nm, data |-> data])

\* ZipFile.writestr(name, data): one more entry at the end of the archive; an
\* entry of the same name already there stays (zipfile only warns)
ZipWritestr(archive, nm, data) == Append(archive, [name |-> nm, data |-> data])

-----------------------------------------------------------------------------
(* The name each handler gives one uploaded file; Raised when the          *)
(* extractor lets an exception out.                                        *)

\* lines 143-147 of upload_files with cust_num (lines 161-165 of
\* upload_files_invoice with inv_num) as extracted
NumberNewName(num, filename) ==
    IF num = Raised THEN Raised
    ELSE IF Truthy(num) THEN <<"C","T","I","-">> \o num \o <<".","p","d","f">>
    ELSE FallbackName(filename)

\* upload_files, lines 142-147
CustomerNewName(uploaded) ==
    NumberNewName(extract_customer_number_from_pdf_bytes(uploaded.data), uploaded.filename)

\* upload_files_invoice, lines 160-165
InvoiceNewName(uploaded) ==
    NumberNewName(extract_invoice_number_from_pdf_bytes(uploaded.data), uploaded.filename)

\* lines 179-187 of upload_salesorder_files with order_num, ship_name as extracted
SalesOrderProposed(order_num, ship_name, filename) ==
    IF Truthy(order_num) /\ Truthy(ship_name)
        THEN <<"C","T","I"," ","S","a","l","e","s"," ","O","r","d","e","r"," ">> \o order_num \o <<" ">> \o ship_name \o <<".","p","d","f">>
    ELSE IF Truthy(order_num)
        THEN <<"C","T","I"," ","S","a","l","e","s"," ","O","r","d","e","r"," ">> \o order_num \o <<".","p","d","f">>
    ELSE IF Truthy(ship_name)
        THEN <<"C","T","I"," ","S","a","l","e","s"," ","O","r","d","e","r"," ">> \o ship_name \o <<".","p","d","f">>
    ELSE FallbackName(filename)

\* lines 178-188 with the extractor's answer: safe_name = sanitize_name(proposed)
SafeNameOf(details, filename) ==
    IF details = Raised THEN Raised
    ELSE sanitize_name(SalesOrderProposed(details[1], details[2], filename))

\* upload_salesorder_files, lines 178-188
SalesOrderSafeName(uploaded) ==
    SafeNameOf(extract_sales_order_details_from_pdf_bytes(uploaded.data), uploaded.filename)

-----------------------------------------------------------------------------
(* Inputs *)

Page(text) == [readable |-> TRUE, text |-> text]
BadPage == [readable |-> FALSE, text |-> <<>>]

\* page.get_text() of a page showing the given lines: each line ends in "\n"
RECURSIVE TextOfLines(_)
TextOfLines(lines) ==
    IF lines = <<>> THEN <<>> ELSE lines[1] \o <<"\n">> \o TextOfLines(Tail(lines))

\* bytes fitz.open rejects
CorruptData == [openable |-> FALSE, pages |-> <<>>]

\* every label, on one page
FullData == [openable |-> TRUE, pages |-> <<Page(TextOfLines(<<
    <<"C","u","s","t","o","m","e","r"," ","N","o",":"," ","C","-","9">>, <<"I","n","v","o","i","c","e"," ","N","u","m","b","e","r"," ","8","8">>,
    <<"O","r","d","e","r"," ","N","u","m","b","e","r",":"," ","S","V","4","4">>, <<"S","h","i","p"," ","T","o",":"," ","A","c","m","e"," ","1","2"," ","M","a","i","n">>>>))>>]
\* no label at all
PlainData == [openable |-> TRUE, pages |-> <<Page(TextOfLines(<<<<"H","e","l","l","o">>>>))>>]
\* a bare order token, no ship-to
OrderOnlyData == [openable |-> TRUE, pages |-> <<Page(TextOfLines(<<<<"r","e","f"," ","S","O","1","2">>>>))>>]
\* a ship-to name on the line after the label, no order number
ShipOnlyData == [openable |-> TRUE, pages |-> <<Page(TextOfLines(<<
    <<"S","h","i","p"," ","T","o",":">>, <<>>, <<"B","o","l","t"," ","C","o"," ","9"," ","E","l","m">>>>))>>]
\* a first page whose text cannot be read, labels on the second
TwoPageData == [openable |-> TRUE, pages |-> <<BadPage, Page(TextOfLines(<<
    <<"C","u","s","t","o","m","e","r"," ","N","u","m","b","e","r",":"," ","7","7">>, <<"I","n","v","o","i","c","e"," ","N","o"," ","#","5">>>>))>>]

\* the uploads a request is made of
SampleFiles == {
    [filename |-> <<"s","c","a","n",".","p","d","f">>,      data |-> FullData],
    [filename |-> <<"o","t","h","e","r",".","p","d","f">>,     data |-> FullData],
    [filename |-> <<"m","y"," ","r","e","p","o","r","t",".","p","d","f">>, data |-> PlainData],
    [filename |-> None,              data |-> PlainData],
    [filename |-> <<"?",".","p","d","f">>,         data |-> PlainData],
    [filename |-> <<"s","c","a","n",".","p","d","f">>,      data |-> PlainData],
    [filename |-> <<"a","/","b",".","t","a","r",".","g","z">>,    data |-> CorruptData],
    [filename |-> <<"s","c","a","n",".","p","d","f">>,      data |-> CorruptData],
    [filename |-> <<"x",".","p","d","f">>,         data |-> OrderOnlyData],
    [filename |-> <<"y",".","p","d","f">>,         data |-> ShipOnlyData],
    [filename |-> <<>>,              data |-> TwoPageData] }

\* sequences over S of length lo..hi
SeqsOf(S, lo, hi) == UNION {[1..n -> S] : n \in lo..hi}

Handlers == {"upload", "upload_invoice", "upload_salesorder"}

\* the lines a document handed to an extractor is made of
LineVocab == {
    <<"O","r","d","e","r"," ","N","u","m","b","e","r",":"," ","S","V","4","4">>,
    <<"r","e","f"," ","S","O","1","2">>,
    <<"S","h","i","p"," ","T","o",":"," ","A","c","m","e"," ","1","2"," ","M","a","i","n">>,
    <<"S","h","i","p"," ","T","o",":">>,
    <<>>,
    <<"B","o","l","t"," ","C","o"," ","9"," ","E","l","m">>,
    <<"S","h","i","p"," ","T","o",":"," ","1","2"," ","M","a","i","n">>,
    <<"C","u","s","t","o","m","e","r"," ","N","o",":"," ","C","-","9">>,
    <<"I","n","v","o","i","c","e"," ","N","u","m","b","e","r"," ","8","8">> }

ExtractDocs ==
    {CorruptData} \cup
    {[openable |-> TRUE, pages |-> <<Page(TextOfLines(ls))>>] : ls \in SeqsOf(LineVocab, 0, MaxLines)}

Extractors == {"customer", "invoice", "salesorder"}

\* the characters of the strings handed to sanitize_name on its own
SanAlphabet == {"a", "Z", "7", "-", "_", " ", ".", "/", ":"}

-----------------------------------------------------------------------------
(* The upload handlers.  One step is one iteration of `for uploaded in     *)
(* files`, which suspends at `await uploaded.read()`.                      *)

HandlerIdle ==
    /\ handler = "none" /\ files = <<>> /\ zf = <<>> /\ pos = 0
ExtractorIdle ==
    /\ doc = CorruptData /\ extractor = "none" /\ result = Unset
SanitizerIdle ==
    /\ name = <<>> /\ once = Unset /\ twice = Unset

Init ==
    /\ handler \in Handlers
    /\ files \in SeqsOf(SampleFiles, 1, MaxBatch)
    /\ zf = <<>>        \* zipfile.ZipFile(memory_file, mode='w')
    /\ pos = 1
    /\ pc = "serving"
    /\ ExtractorIdle /\ SanitizerIdle

\* one iteration of a handler's loop with the name it computes: an exception
\* leaves the handler, the archive is never returned
Iterate(new_name) ==
    /\ IF new_name = Raised
       THEN /\ pc' = "error"
            /\ UNCHANGED <<zf, pos>>
       ELSE /\ zf' = ZipWritestr(zf, new_name, files[pos].data)
            /\ pos' = pos + 1
            /\ pc' = pc
    /\ UNCHANGED <<handler, files, doc, extractor, result, name, once, twice>>

upload_files ==
    /\ pc = "serving" /\ handler = "upload" /\ pos <= Len(files)
    /\ Iterate(CustomerNewName(files[pos]))

upload_files_invoice ==
    /\ pc = "serving" /\ handler = "upload_invoice" /\ pos <= Len(files)
    /\ Iterate(InvoiceNewName(files[pos]))

upload_salesorder_files ==
    /\ pc = "serving" /\ handler = "upload_salesorder" /\ pos <= Len(files)
    /\ Iterate(SalesOrderSafeName(files[pos]))

\* the loop is over: the archive is closed and streamed back
Respond ==
    /\ pc = "serving" /\ pos > Len(files)
    /\ pc' = "done"
    /\ UNCHANGED <<handler, files, zf, pos, doc, extractor, result, name, once, twice>>

Next == upload_files \/ upload_files_invoice \/ upload_salesorder_files \/ Respond

Spec == Init /\ [][Next]_vars

-----------------------------------------------------------------------------
(* The extractors on their own: one call on one document *)

ExtractInit ==
    /\ doc \in ExtractDocs
    /\ extractor \in Extractors
    /\ result = Unset
    /\ pc = "call"
    /\ HandlerIdle /\ SanitizerIdle

Return(value) ==
    /\ result' = value
    /\ pc' = "returned"
    /\ UNCHANGED <<handler, files, zf, pos, doc, extractor, name, once, twice>>

ExtractCustomer ==
    /\ pc = "call" /\ extractor = "customer"
    /\ Return(extract_customer_number_from_pdf_bytes(doc))

ExtractInvoice ==
    /\ pc = "call" /\ extractor = "invoice"
    /\ Return(extract_invoice_number_from_pdf_bytes(doc))

ExtractSalesOrder ==
    /\ pc = "call" /\ extractor = "salesorder"
    /\ Return(extract_sales_order_details_from_pdf_bytes(doc))

ExtractNext == ExtractCustomer \/ ExtractInvoice \/ ExtractSalesOrder

ExtractSpec == ExtractInit /\ [][ExtractNext]_vars

-----------------------------------------------------------------------------
(* sanitize_name on its own, applied once and then to its own result *)

SanInit ==
    /\ name \in SeqsOf(SanAlphabet, 0, MaxLen)
    /\ once = Unset
    /\ twice = Unset
    /\ pc = "call"
    /\ HandlerIdle /\ ExtractorIdle

SanitizeOnce ==
    /\ pc = "call"
    /\ once' = sanitize_name(name)
    /\ pc' = "once"
    /\ UNCHANGED <<handler, files, zf, pos, doc, extractor, result, name, twice>>

SanitizeTwice ==
    /\ pc = "once"
    /\ twice' = sanitize_name(once)
    /\ pc' = "twice"
    /\ UNCHANGED <<handler, files, zf, pos, doc, extractor, result, name, once>>

SanNext == SanitizeOnce \/ SanitizeTwice

SanSpec == SanInit /\ [][SanNext]_vars

-----------------------------------------------------------------------------
(* Properties of the upload handlers, checked under Spec *)

\* the handler's extractor found no field in the document: it took the
\* fallback branch
NoFieldFound(h, data) ==
    IF h = "upload" THEN ~Truthy(extract_customer_number_from_pdf_bytes(data))
    ELSE IF h = "upload_invoice" THEN ~Truthy(extract_invoice_number_from_pdf_bytes(data))
    ELSE /\ ~Truthy(extract_sales_order_details_from_pdf_bytes(data)[1])
         /\ ~Truthy(extract_sales_order_details_from_pdf_bytes(data)[2])

\* the characters a sanitized name is made of
AllowedInNames == Letters \cup Digits \cup {"-", "_"}

\* s without the characters outside AllowedInNames
RECURSIVE OnlyAllowed(_)
OnlyAllowed(s) ==
    IF s = <<>> THEN <<>>
    ELSE (IF Head(s) \in AllowedInNames THEN <<Head(s)>> ELSE <<>>) \o OnlyAllowed(Tail(s))

\* the name a document without fields is archived under: the stem of its
\* filename ("file" when it has none) reduced to the allowed characters, then
\* ".pdf", which /upload_salesorder sanitizes once more into "pdf"
ExpectedFallback(h, filename) ==
    OnlyAllowed(PathStem(FilenameOrFile(filename)))
        \o (IF h = "upload_salesorder" THEN <<"p","d","f">> ELSE <<".","p","d","f">>)

\* C1 as stated: a document in which no field is found is archived under its
\* original filename, unmodified.
C1_FallbackKeepsOriginalName ==
    \A i \in 1..Len(zf) :
        NoFieldFound(handler, files[i].data) => zf[i].name = files[i].filename

\* C1 amended: a document in which no field is found is archived under the
\* stem of its original filename ("file" when the filename is empty or
\* missing) with every character other than letters, digits, "-" and "_"
\* removed, followed by ".pdf" under /upload and /upload_invoice and by "pdf"
\* under /upload_salesorder.
C1_FallbackIsSanitizedStem ==
    \A i \in 1..Len(zf) :
        NoFieldFound(handler, files[i].data)
            => zf[i].name = ExpectedFallback(handler, files[i].filename)

\* a no-field document whose archived name differs from its filename
C1_Witness ==
    /\ pc = "done"
    /\ \E i \in 1..Len(zf) :
        /\ files[i].data = PlainData
        /\ files[i].filename = <<"m","y"," ","r","e","p","o","r","t",".","p","d","f">>
        /\ NoFieldFound(handler, files[i].data)
        /\ zf[i].name # files[i].filename

\* C2: no two entries written to the archive by one request share a name.
C2_ArchiveNamesDistinct ==
    \A i, j \in 1..Len(zf) : i # j => zf[i].name # zf[j].name

\* C3: a handler never aborts, it has written one entry per file read so far,
\* entry i holds the bytes of input i, and at the end the archive has as many
\* entries as the request has files.
C3_EntriesMatchInputs ==
    /\ pc # "error"
    /\ Len(zf) + 1 = pos
    /\ \A i \in 1..Len(zf) : i <= Len(files) /\ zf[i].data = files[i].data
    /\ pc = "done" => Len(zf) = Len(files)

\* a finished batch of at least two different documents that got the same name
C3_Witness ==
    /\ pc = "done"
    /\ Len(files) >= 2
    /\ files[1].data # files[2].data
    /\ zf[1].name = zf[2].name

\* the name the handler h gives the file f
NameUnder(h, f) ==
    IF h = "upload" THEN CustomerNewName(f)
    ELSE IF h = "upload_invoice" THEN InvoiceNewName(f)
    ELSE SalesOrderSafeName(f)

\* seq without its i-th element
Without(seq, i) == [k \in 1..(Len(seq) - 1) |-> IF k < i THEN seq[k] ELSE seq[k + 1]]

\* C4: a document fitz.open rejects never aborts the batch: every extractor
\* answers "not found" for it, its entry is written under the fallback name,
\* and the names of the other entries are those of the batch without it.
C4_CorruptNeverAborts ==
    /\ pc # "error"
    /\ \A i \in 1..Len(files) :
        ~files[i].data.openable =>
            /\ extract_customer_number_from_pdf_bytes(files[i].data) = None
            /\ extract_invoice_number_from_pdf_bytes(files[i].data) = None
            /\ extract_sales_order_details_from_pdf_bytes(files[i].data) = <<None, None>>
            /\ i <= Len(zf) => zf[i].name = ExpectedFallback(handler, files[i].filename)
            /\ pc = "done" =>
                /\ Len(zf) = Len(files)
                /\ \A k \in 1..(Len(files) - 1) :
                    Without(zf, i)[k].name = NameUnder(handler, Without(files, i)[k])

\* a finished batch of a corrupt document and a well-formed, renamed one
C4_Witness ==
    /\ pc = "done"
    /\ \E i, j \in 1..Len(files) :
        /\ ~files[i].data.openable
        /\ files[j].data = FullData
        /\ ~NoFieldFound(handler, files[j].data)

\* the characters no archive entry name may hold
IllegalChars == {"<", ">", ":", "\"", "/", "\\", "|", "?", "*"}

\* C5: every name written to the archive is non-empty and holds none of the
\* characters < > : " / \ | ? *.
C5_NamesLegal ==
    \A i \in 1..Len(zf) :
        /\ zf[i].name # <<>>
        /\ \A k \in 1..Len(zf[i].name) : zf[i].name[k] \notin IllegalChars

\* entries written for a filename made of a stripped character only, for a
\* missing filename and for an empty one
C5_Witness ==
    /\ pc = "done"
    /\ \E i \in 1..Len(zf) :
        files[i].filename = <<"?",".","p","d","f">> /\ NoFieldFound(handler, files[i].data)
    /\ \E i \in 1..Len(zf) : files[i].filename \in {None, <<>>}

\* C8: under /upload_salesorder the entry is named
\* "CTI Sales Order <order> <shipTo>.pdf" when both fields are found,
\* "CTI Sales Order <order>.pdf" or "CTI Sales Order <shipTo>.pdf" when one is:
\* the spaces and the period of the name are kept.
C8_SalesOrderNameShape ==
    \A i \in 1..Len(zf) :
        (handler = "upload_salesorder" /\ ~NoFieldFound(handler, files[i].data)) =>
            zf[i].name = SalesOrderProposed(
                extract_sales_order_details_from_pdf_bytes(files[i].data)[1],
                extract_sales_order_details_from_pdf_bytes(files[i].data)[2],
                files[i].filename)

-----------------------------------------------------------------------------
(* Properties of the extractors, checked under ExtractSpec *)

\* the value a line carries after the label "Order Number" or "Sales Order",
\* None when it carries no such label followed by a value
LabelledValue(line) ==
    IF OrderNumberSearch(line).found THEN Strip(OrderNumberSearch(line).group)
    ELSE IF SalesOrderSearch(line).found THEN Strip(SalesOrderSearch(line).group)
    ELSE None

\* the lines of doc that carry a labelled order number
LabelledLines(lines) == {i \in 1..Len(lines) : LabelledValue(lines[i]) # None}

\* the first bare SO/SV token of the text, None when it holds none
FirstBareToken(lines) ==
    IF ORDER_FALLBACK_REGEX_search(JoinLines(lines)).found
    THEN ORDER_FALLBACK_REGEX_search(JoinLines(lines)).group
    ELSE None

\* the order number the two-tier rule gives
TieredOrder(lines) ==
    IF LabelledLines(lines) # {} THEN LabelledValue(lines[Min(LabelledLines(lines))])
    ELSE FirstBareToken(lines)

\* C6: the order number returned is the value of the first labelled line when
\* a line carries the label, and a bare SO/SV token only when none does.
C6_LabelledOrderHasPriority ==
    (pc = "returned" /\ extractor = "salesorder" /\ doc.openable)
        => result[1] = TieredOrder(PageLines(doc.pages))

\* s up to its first digit, without surrounding white space
CutAtFirstDigit(s) ==
    LET ds == {i \in 1..Len(s) : s[i] \in Digits}
    IN  Strip(IF ds = {} THEN s ELSE SubSeq(s, 1, Min(ds) - 1))

\* the lines that start with "Ship To"
ShipToLines(lines) == {i \in 1..Len(lines) : ShipToMatch(lines[i]).found}

\* the non-blank lines after line i
NonBlankAfter(lines, i) == {j \in (i + 1)..Len(lines) : Strip(lines[j]) # <<>>}

\* the ship-to name the first "Ship To" line i supplies
ShipToFrom(lines, i) ==
    LET after == Strip(SubSeq(lines[i], ShipToMatch(lines[i]).end, Len(lines[i])))
    IN  IF after # <<>> THEN CutAtFirstDigit(after)
        ELSE IF NonBlankAfter(lines, i) = {} THEN None
        ELSE CutAtFirstDigit(lines[Min(NonBlankAfter(lines, i))])

FirstShipTo(lines) ==
    IF ShipToLines(lines) = {} THEN None
    ELSE ShipToFrom(lines, Min(ShipToLines(lines)))

\* C7: the ship-to name comes from the first line that starts with "Ship To":
\* the text after the label when there is some, otherwise the next non-blank
\* line, cut at the first digit; no later line changes it.
C7_ShipToFromFirstLine ==
    (pc = "returned" /\ extractor = "salesorder" /\ doc.openable)
        => result[2] = FirstShipTo(PageLines(doc.pages))

\* a document with two "Ship To" lines that would supply different names, the
\* first of them through the next non-blank line, cut at a digit
C7_Witness ==
    /\ pc = "returned" /\ extractor = "salesorder" /\ doc.openable
    /\ PageLines(doc.pages) = <<<<"S","h","i","p"," ","T","o",":">>, <<"B","o","l","t"," ","C","o"," ","9"," ","E","l","m">>, <<"S","h","i","p"," ","T","o",":"," ","A","c","m","e"," ","1","2"," ","M","a","i","n">>>>
    /\ result[2] = <<"B","o","l","t"," ","C","o">>

\* C10: no extractor returns the empty string as a field.
C10_NoEmptyField ==
    pc = "returned" =>
        IF extractor = "salesorder" THEN result[1] # <<>> /\ result[2] # <<>>
        ELSE result # <<>>

-----------------------------------------------------------------------------
(* Property of sanitize_name, checked under SanSpec *)

\* C9: sanitize_name applied to its own result returns it unchanged.
C9_SanitizeIdempotent == pc = "twice" => twice = once

\* a string that sanitize_name shortened, sanitized twice
C9_Witness == pc = "twice" /\ once # name /\ once # <<>>

=============================================================================
